---- MODULE Spec2Model ----
(***************************************************************************)
(* A model of src/server.rs: the Server (listener, worker pool, endpoint   *)
(* table), its setup calls (add_get_endpoint), its accept loop (run) and   *)
(* the jobs it hands to the pool (send_response).                          *)
(*                                                                         *)
(* Strings are sequences of UTF-8 bytes (a printable ASCII byte as itself, *)
(* any other byte as its two hex digits), so that splitting a request      *)
(* line, measuring a body and formatting a response are computed byte by   *)
(* byte as the code computes them.                                         *)
(*                                                                         *)
(* crate::ThreadPool is used by server.rs but its source is not in src/;   *)
(* the pool (ThreadPool_new, ThreadPool_execute, ReceiverFree,             *)
(* ObservesClosure, WorkerTake, WorkerRecv, WorkerExit, Shutdown, Join) is *)
(* modelled from sections 3, 4.1 and 5 of the spec, and from what          *)
(* server.rs shows of it: the field pool: ThreadPool and the call          *)
(* ThreadPool::new(4), whose result is stored as it is.                    *)
(***************************************************************************)
EXTENDS Naturals, Sequences, FiniteSets

VARIABLES
    files,      \* the file system: file name -> contents, or NoFile
    fileWrites, \* number of changes made to the file system so far
    endpoints,  \* Server.endpoints: the route table, a sequence of Endpoints
    registered, \* history: for each endpoint, the file asked for and what was read
    mainpc,     \* where the thread that owns the Server is
    panic,      \* why that thread panicked ("none" while it has not)
    conns,      \* every connection a client has opened, in connection order
    accepted,   \* how many of them listener.incoming() has yielded so far
    acceptErrs, \* how many times listener.incoming() has yielded an Err
    queue,      \* the pool's job channel
    workers,    \* the pool's workers
    pool,       \* ThreadPool::new: the size asked for and what it returned
    closed,     \* the job channel has been closed (pool shutdown)
    joined      \* how many workers the shutdown has joined so far

vars == <<files, fileWrites, endpoints, registered, mainpc, panic, conns,
          accepted, acceptErrs, queue, workers, pool, closed, joined>>

-----------------------------------------------------------------------------
(* Bounds of the model *)

MaxRoutes == 2
MaxConns == 2
MaxFileWrites == 1
PoolJobs == 6

-----------------------------------------------------------------------------
(* Strings *)

\* A string is the sequence of the bytes of its UTF-8 encoding, as a String
\* and a TcpStream hold it. The byte of a printable ASCII character, and of
\* each of "\t", "\n", "\f", "\r", is written as that character; every other
\* byte is written as its two hexadecimal digits: U+00E9 is "C3", "A9",
\* U+000B is "0B", U+1F600 is "F0", "9F", "98", "80".

HexDigits ==
    {"0", "1", "2", "3", "4", "5", "6", "7", "8", "9", "A", "B", "C", "D", "E", "F"}

HexBytes(high, low) == {h \o l : h \in high, l \in low}

\* The bytes that continue a character, and the first bytes of the
\* characters of two, three and four bytes.
Continuation == HexBytes({"8", "9", "A", "B"}, HexDigits)
Lead2 == HexBytes({"C", "D"}, HexDigits) \ {"C0", "C1"}
Lead3 == HexBytes({"E"}, HexDigits)
Lead4 == {"F0", "F1", "F2", "F3", "F4"}

\* The bytes no UTF-8 text has.
NeverUtf8 == {"C0", "C1"} \cup HexBytes({"F"}, HexDigits \ {"0", "1", "2", "3", "4"})

\* Number of bytes of the character whose first byte is b.
Utf8Len(b) ==
    IF b \in Lead2 THEN 2 ELSE IF b \in Lead3 THEN 3 ELSE IF b \in Lead4 THEN 4 ELSE 1

\* The second byte of a character is in the range its first byte allows.
SecondByteFits(b, c) ==
    /\ c \in Continuation
    /\ b = "E0" => c \in HexBytes({"A", "B"}, HexDigits)
    /\ b = "ED" => c \in HexBytes({"8", "9"}, HexDigits)
    /\ b = "F0" => c \notin HexBytes({"8"}, HexDigits)
    /\ b = "F4" => c \in HexBytes({"8"}, HexDigits)

\* std::str::from_utf8 accepts the bytes of s from the i-th on.
RECURSIVE ValidUtf8From(_, _)
ValidUtf8From(s, i) ==
    IF i > Len(s) THEN TRUE
    ELSE LET w == Utf8Len(s[i]) IN
         /\ s[i] \notin Continuation \cup NeverUtf8
         /\ i + w - 1 <= Len(s)
         /\ w >= 2 => SecondByteFits(s[i], s[i + 1])
         /\ \A k \in (i + 2)..(i + w - 1) : s[k] \in Continuation
         /\ ValidUtf8From(s, i + w)

ValidUtf8(s) == ValidUtf8From(s, 1)

\* str::chars().count().
CharLen(s) == Cardinality({i \in 1..Len(s) : s[i] \notin Continuation})

\* Option::None, and a file that cannot be read.
None == [none |-> TRUE]
NoFile == [exists |-> FALSE]
File(contents) == [exists |-> TRUE, contents |-> contents]

s_GET == <<"G", "E", "T">>
s_POST == <<"P", "O", "S", "T">>
s_PUT == <<"P", "U", "T">>
s_DELETE == <<"D", "E", "L", "E", "T", "E">>
s_FOO == <<"F", "O", "O">>
s_HTTP11 == <<"H", "T", "T", "P", "/", "1", ".", "1">>
s_HTTP10 == <<"H", "T", "T", "P", "/", "1", ".", "0">>
s_slash == <<"/">>
s_a == <<"/", "a">>
s_a_b == <<"/", "a", " ", "b">>
s_sp == <<" ">>
s_crlf == <<"\r", "\n">>
s_ContentLength == <<"C", "o", "n", "t", "e", "n", "t", "-", "L", "e", "n", "g", "t", "h", ":", " ">>
s_Hello == <<"H", "e", "l", "l", "o">>
\* Five characters, six bytes in UTF-8.
s_Oops == <<"O", "o", "p", "s", "C3", "A9">>

f_index == "index.html"
f_unknown == "unknown.html"

FileNames == {f_index, f_unknown}
FileContents == {s_Hello, s_Oops}
FileStates == {File(c) : c \in FileContents} \cup {NoFile}
RoutePaths == {s_slash, s_a, s_a_b}

RequestLine(method, path, protocol) == method \o s_sp \o path \o s_sp \o protocol \o s_crlf

\* What a client does on its connection: the bytes it sends before it closes
\* its side, or a reset that makes the server's read fail.
Sends(bytes) == [kind |-> "data", bytes |-> bytes]
Reset == [kind |-> "reset", bytes |-> <<>>]

\* Well-formed request lines.
RequestStreams ==
    { Sends(RequestLine(s_GET, s_slash, s_HTTP11)),
      Sends(RequestLine(s_GET, s_a, s_HTTP11)),
      Sends(RequestLine(s_GET, s_a_b, s_HTTP11)),
      Sends(RequestLine(s_POST, s_slash, s_HTTP10)) }

\* "GET /a HTTP/1.0" with U+00A0 and U+3000 for the spaces.
UnicodeSpacedStream ==
    Sends(s_GET \o <<"C2", "A0">> \o s_a \o <<"E3", "80", "80">> \o s_HTTP10 \o s_crlf)

\* Malformed request lines, a line that is not UTF-8, a client that closes
\* without sending anything, and a read that fails.
BrokenStreams ==
    { Sends(s_FOO \o s_sp \o s_a \o s_crlf),
      Sends(s_GET \o s_crlf),
      Sends(s_crlf),
      Sends(s_GET \o s_sp \o s_slash \o <<"FF">> \o s_crlf),
      Sends(<<>>),
      Reset }

-----------------------------------------------------------------------------
(* Types of server.rs *)

HttpMethod == {"GET", "POST", "PUT", "DELETE"}
StatusCode == {"Ok", "BadRequest", "NotFound", "InternalServerError"}

Request(method, path, protocol, body) ==
    [method |-> method, path |-> path, protocol |-> protocol, body |-> body]

Response(protocol, status_code, body) ==
    [protocol |-> protocol, status_code |-> status_code, body |-> body]

Endpoint_new(path, handler) == [path |-> path, handler |-> handler]

\* The value of a call that panicked (an unwrap or expect that failed).
Panicked(why) == [panicked |-> why]
IsPanic(v) == "panicked" \in DOMAIN v

-----------------------------------------------------------------------------
(* Reading and parsing the request line: Server::read_stream *)

\* char::is_whitespace: the characters with the Unicode property White_Space,
\* U+0009..U+000D, U+0020, U+0085, U+00A0, U+1680, U+2000..U+200A, U+2028,
\* U+2029, U+202F, U+205F and U+3000.
WhiteSpace ==
    {<<"\t">>, <<"\n">>, <<"0B">>, <<"\f">>, <<"\r">>, <<" ">>,
     <<"C2", "85">>, <<"C2", "A0">>, <<"E1", "9A", "80">>,
     <<"E2", "80", "A8">>, <<"E2", "80", "A9">>, <<"E2", "80", "AF">>,
     <<"E2", "81", "9F">>, <<"E3", "80", "80">>}
    \cup {<<"E2", "80", b>> : b \in HexBytes({"8"}, HexDigits \ {"B", "C", "D", "E", "F"})}

\* Index of the first "\n" of bytes at or after i, or Len(bytes) + 1.
RECURSIVE NewlineAt(_, _)
NewlineAt(bytes, i) ==
    IF i > Len(bytes) THEN i
    ELSE IF bytes[i] = "\n" THEN i
    ELSE NewlineAt(bytes, i + 1)

\* BufReader::lines().next(): None at end of stream, an error when the read
\* fails or the line is not UTF-8, otherwise the bytes up to the first "\n",
\* without it and without a "\r" right before it.
lines_next(stream) ==
    IF stream.kind = "reset" THEN [tag |-> "Err"]
    ELSE IF stream.bytes = <<>> THEN [tag |-> "None"]
    ELSE LET n == NewlineAt(stream.bytes, 1)
             raw == SubSeq(stream.bytes, 1, n - 1)
             line == IF n <= Len(stream.bytes) /\ raw # <<>> /\ raw[Len(raw)] = "\r"
                     THEN SubSeq(raw, 1, Len(raw) - 1)
                     ELSE raw
         IN  IF ValidUtf8(raw) THEN [tag |-> "Some", line |-> line]
             ELSE [tag |-> "Err"]

\* The character of s that starts at its i-th byte.
CharAt(s, i) == SubSeq(s, i, i + Utf8Len(s[i]) - 1)

\* str::split_whitespace: the maximal runs of non-whitespace characters.
RECURSIVE SplitFrom(_, _, _, _)
SplitFrom(s, i, cur, acc) ==
    IF i > Len(s)
    THEN IF cur = <<>> THEN acc ELSE Append(acc, cur)
    ELSE IF CharAt(s, i) \in WhiteSpace
         THEN SplitFrom(s, i + Utf8Len(s[i]), <<>>,
                        IF cur = <<>> THEN acc ELSE Append(acc, cur))
         ELSE SplitFrom(s, i + Utf8Len(s[i]), cur \o CharAt(s, i), acc)

split_whitespace(s) == SplitFrom(s, 1, <<>>, <<>>)

parse_method(token) ==
    IF token = s_GET THEN "GET"
    ELSE IF token = s_POST THEN "POST"
    ELSE IF token = s_PUT THEN "PUT"
    ELSE IF token = s_DELETE THEN "DELETE"
    ELSE "GET"

read_stream(stream) ==
    LET first == lines_next(stream) IN
    IF first.tag = "Err" THEN Panicked("read failed")
    ELSE IF first.tag = "None" THEN Panicked("no first line")
    ELSE LET parts == split_whitespace(first.line) IN
         IF Len(parts) = 0 THEN Panicked("no method")
         ELSE Request(parse_method(parts[1]),
                      IF Len(parts) >= 2 THEN parts[2] ELSE s_slash,
                      IF Len(parts) >= 3 THEN parts[3] ELSE s_HTTP11,
                      s_sp)

-----------------------------------------------------------------------------
(* The route table: html_response, Endpoint::default, find_endpoint *)

\* fs::read_to_string: an error when the file cannot be read or is not UTF-8.
fs_read_to_string(fs, file_name) ==
    IF file_name \in DOMAIN fs /\ fs[file_name].exists /\ ValidUtf8(fs[file_name].contents)
    THEN [tag |-> "Ok", contents |-> fs[file_name].contents]
    ELSE [tag |-> "Err"]

\* html_response that marks the content of unknown.html, served in place of
\* an unreadable file, with a status of its own.
html_response_500(fs, file_name) ==
    LET r == fs_read_to_string(fs, file_name) IN
    IF r.tag = "Ok" THEN Response(s_HTTP11, "Ok", r.contents)
    ELSE LET u == fs_read_to_string(fs, f_unknown) IN
         IF u.tag = "Ok" THEN Response(s_HTTP11, "InternalServerError", u.contents)
         ELSE Panicked("unknown.html unreadable")

\* html_response without the second read: an unreadable file is fatal.
html_response_no_fallback(fs, file_name) ==
    LET r == fs_read_to_string(fs, file_name) IN
    IF r.tag = "Ok" THEN Response(s_HTTP11, "Ok", r.contents)
    ELSE Panicked("unknown.html unreadable")

html_response(fs, file_name) ==
    LET r == fs_read_to_string(fs, file_name) IN
    IF r.tag = "Ok" THEN Response(s_HTTP11, "Ok", r.contents)
    ELSE LET u == fs_read_to_string(fs, f_unknown) IN
         IF u.tag = "Ok" THEN Response(s_HTTP11, "Ok", u.contents)
         ELSE Panicked("unknown.html unreadable")

\* A fallback that answers 404.
Endpoint_default_404(fs) ==
    LET handler == html_response(fs, f_unknown) IN
    IF IsPanic(handler) THEN handler
    ELSE Endpoint_new(s_slash, Response(s_HTTP11, "NotFound", handler.body))

Endpoint_default(fs) ==
    LET handler == html_response(fs, f_unknown) IN
    IF IsPanic(handler) THEN handler ELSE Endpoint_new(s_slash, handler)

\* Index of the first endpoint at or after i whose path is path, or 0.
RECURSIVE FirstMatch(_, _, _)
FirstMatch(eps, path, i) ==
    IF i > Len(eps) THEN 0
    ELSE IF path = eps[i].path THEN i
    ELSE FirstMatch(eps, path, i + 1)

\* A lookup that takes a route whose path is a prefix of the requested path.
RECURSIVE FirstPrefixMatch(_, _, _)
FirstPrefixMatch(eps, path, i) ==
    IF i > Len(eps) THEN 0
    ELSE IF Len(eps[i].path) <= Len(path)
            /\ SubSeq(path, 1, Len(eps[i].path)) = eps[i].path THEN i
    ELSE FirstPrefixMatch(eps, path, i + 1)

find_endpoint_prefix(eps, path) ==
    LET i == FirstPrefixMatch(eps, path, 1) IN
    IF i = 0 THEN None ELSE eps[i].handler

find_endpoint(eps, path) ==
    LET i == FirstMatch(eps, path, 1) IN
    IF i = 0 THEN None ELSE eps[i].handler

-----------------------------------------------------------------------------
(* Formatting the response: Server::send_response, Display for StatusCode *)

StatusCode_fmt(status_code) ==
    CASE status_code = "Ok" -> <<"2", "0", "0", " ", "O", "K">>
      [] status_code = "BadRequest" ->
            <<"4", "0", "0", " ", "B", "a", "d", " ", "R", "e", "q", "u", "e", "s", "t">>
      [] status_code = "NotFound" ->
            <<"4", "0", "4", " ", "N", "o", "t", " ", "F", "o", "u", "n", "d">>
      [] status_code = "InternalServerError" ->
            <<"5", "0", "0", " ", "I", "n", "t", "e", "r", "n", "a", "l", " ",
              "S", "e", "r", "v", "e", "r", " ", "E", "r", "r", "o", "r">>

\* String::len: the length in bytes.
ByteLen(s) == Len(s)

Digit(d) == <<"0", "1", "2", "3", "4", "5", "6", "7", "8", "9">>[d + 1]

\* Display for usize: decimal digits, no padding.
RECURSIVE usize_fmt(_)
usize_fmt(n) == IF n < 10 THEN <<Digit(n)>> ELSE Append(usize_fmt(n \div 10), Digit(n % 10))

\* format_response with the number of characters as the length.
format_response_chars(response) ==
    response.protocol \o s_sp \o StatusCode_fmt(response.status_code) \o s_crlf
        \o s_ContentLength \o usize_fmt(CharLen(response.body)) \o s_crlf
        \o s_crlf \o response.body

format_response(response) ==
    response.protocol \o s_sp \o StatusCode_fmt(response.status_code) \o s_crlf
        \o s_ContentLength \o usize_fmt(ByteLen(response.body)) \o s_crlf
        \o s_crlf \o response.body

-----------------------------------------------------------------------------
(* The worker pool (crate::ThreadPool) *)

PoolSize == 4

\* The largest size the pool is constructed with on its own.
MaxPoolSize == 2

Job(handler, stream) == [handler |-> handler, stream |-> stream]

Idle == [state |-> "idle", job |-> None]
\* A worker that holds the shared receiver and has the next job before it,
\* not yet taken off the channel.
Taking(job) == [state |-> "taking", job |-> job]
\* A worker that runs job; sent is how many bytes of the response its
\* write_all has written so far.
Busy(job) == [state |-> "busy", job |-> job, sent |-> 0]
Exited == [state |-> "exited", job |-> None]

\* ThreadPool::new(size): size workers, each waiting on the job channel.
\* Server::new stores what it returns in the field pool: ThreadPool as it
\* is: the constructor has no error to return, and a size it does not take
\* makes it panic.
ThreadPool_new(size) ==
    IF size < 1 THEN [tag |-> "Panicked"]
    ELSE [tag |-> "Ok", workers |-> [w \in 1..size |-> Idle]]

\* A receiver that any number of workers use at a time.
ReceiverFree_unlocked(ws) == TRUE

\* The receiver of the channel is shared behind a lock: no worker holds it.
ReceiverFree(ws) == \A v \in DOMAIN ws : ws[v].state # "taking"

\* A worker that takes the closing of the channel for its end, jobs left or
\* not.
ObservesClosure_eager(q, isClosed) == isClosed

\* A receive fails, and the worker's loop ends, when the channel is closed
\* and no job is left in it.
ObservesClosure(q, isClosed) == isClosed /\ q = <<>>

\* ThreadPool::execute(job): the job is sent on the channel.
ThreadPool_execute(q, job) == Append(q, job)

-----------------------------------------------------------------------------
(* The state after Server::new *)

Conn(stream) ==
    [stream |-> stream,  \* what the client does on this connection
     at |-> "backlog",   \* backlog, main, queue, worker or closed
     request |-> None,   \* the Request read_stream made of it
     seen |-> None,      \* history: the file system when it was dispatched
     jobs |-> 0,         \* jobs submitted to the pool for it
     recv |-> 0,         \* deliveries of its job to a worker
     writes |-> 0,       \* write_all calls on it that have returned
     wrote |-> "none",   \* what the write_all call returned: Ok or Err
     wire |-> <<>>]      \* the bytes written to it (taken by the socket)

\* What TcpListener::bind can return.
BindResults == {"Ok", "Err"}

\* Server::new: a bind that fails panics before the pool is constructed; no
\* Server comes to exist.
Server_new(fs, bind) ==
    /\ files = fs
    /\ fileWrites = 0
    /\ endpoints = <<>>
    /\ registered = <<>>
    /\ conns = <<>>
    /\ accepted = 0
    /\ acceptErrs = 0
    /\ queue = <<>>
    /\ closed = FALSE
    /\ joined = 0
    /\ IF bind = "Ok"
       THEN /\ mainpc = "setup"
            /\ panic = "none"
            /\ pool = [size |-> PoolSize, tag |-> ThreadPool_new(PoolSize).tag]
            /\ workers = ThreadPool_new(PoolSize).workers
       ELSE /\ mainpc = "panicked"
            /\ panic = "bind failed"
            /\ pool = [size |-> PoolSize, tag |-> "NotCalled"]
            /\ workers = <<>>

Init == \E fs \in [FileNames -> FileStates], bind \in BindResults :
            /\ fs[f_index] \in {File(s_Hello), NoFile}
            /\ fs[f_unknown] \in {File(s_Oops), NoFile}
            /\ Server_new(fs, bind)

-----------------------------------------------------------------------------
(* Setup: Server::add_get_endpoint, Server::add_endpoint *)

\* add_endpoint that puts the new endpoint in front of the others.
add_endpoint_front(eps, path, handler) == <<Endpoint_new(path, handler)>> \o eps

add_endpoint(eps, path, handler) == Append(eps, Endpoint_new(path, handler))

MainPanics(why) ==
    /\ mainpc' = "panicked"
    /\ panic' = why

add_get_endpoint(path, file_name) ==
    /\ mainpc = "setup"
    /\ Len(endpoints) < MaxRoutes
    /\ LET handler == html_response(files, file_name) IN
       IF IsPanic(handler)
       THEN /\ MainPanics(handler.panicked)
            /\ UNCHANGED <<endpoints, registered>>
       ELSE /\ endpoints' = add_endpoint(endpoints, path, handler)
            /\ registered' = Append(registered,
                   [path |-> path, file_name |-> file_name,
                    file |-> files[file_name], unknown |-> files[f_unknown]])
            /\ UNCHANGED <<mainpc, panic>>
    /\ UNCHANGED <<pool, files, fileWrites, conns, accepted, acceptErrs, queue, workers,
                   closed, joined>>

\* Something outside the server changes, creates or removes a file. (Once the
\* thread that owns the Server has panicked nothing reads a file any more.)
WriteFile(file_name, contents) ==
    /\ mainpc # "panicked"
    /\ fileWrites < MaxFileWrites
    /\ files[file_name] # contents
    /\ files' = [files EXCEPT ![file_name] = contents]
    /\ fileWrites' = fileWrites + 1
    /\ UNCHANGED <<pool, endpoints, registered, mainpc, panic, conns, accepted, acceptErrs,
                   queue, workers, closed, joined>>

-----------------------------------------------------------------------------
(* Server::run: the accept loop *)

run_start ==
    /\ mainpc = "setup"
    /\ mainpc' = "accept"
    /\ UNCHANGED <<pool, files, fileWrites, endpoints, registered, panic, conns, accepted,
                   acceptErrs, queue, workers, closed, joined>>

\* A client connects; the connection waits in the listener's backlog. (A
\* connection made during setup waits there until run() starts, so clients
\* are let in from then on only.)
ClientConnect(stream) ==
    /\ mainpc \in {"accept", "read", "dispatch"}
    /\ Len(conns) < MaxConns
    /\ conns' = Append(conns, Conn(stream))
    /\ UNCHANGED <<pool, files, fileWrites, endpoints, registered, mainpc, panic, accepted,
                   acceptErrs, queue, workers, closed, joined>>

\* listener.incoming() yields Ok(stream).
run_accept ==
    /\ mainpc = "accept"
    /\ accepted < Len(conns)
    /\ accepted' = accepted + 1
    /\ conns' = [conns EXCEPT ![accepted + 1].at = "main"]
    /\ mainpc' = "read"
    /\ UNCHANGED <<pool, files, fileWrites, endpoints, registered, panic, acceptErrs, queue,
                   workers, closed, joined>>

\* listener.incoming() yields Err: stream.expect panics.
run_accept_err ==
    /\ mainpc = "accept"
    /\ acceptErrs' = acceptErrs + 1
    /\ MainPanics("accept failed")
    /\ UNCHANGED <<pool, files, fileWrites, endpoints, registered, conns, accepted, queue,
                   workers, closed, joined>>

\* let request = Server::read_stream(&stream);
run_read ==
    /\ mainpc = "read"
    /\ LET request == read_stream(conns[accepted].stream) IN
       IF IsPanic(request)
       THEN /\ MainPanics(request.panicked)
            /\ conns' = [conns EXCEPT ![accepted].at = "closed"]
       ELSE /\ conns' = [conns EXCEPT ![accepted].request = request]
            /\ mainpc' = "dispatch"
            /\ UNCHANGED panic
    /\ UNCHANGED <<pool, files, fileWrites, endpoints, registered, accepted, acceptErrs,
                   queue, workers, closed, joined>>

\* A lookup that reads the page again on every hit.
lookup_live(eps, fs, path) ==
    LET found == find_endpoint(eps, path) IN
    IF found # None THEN html_response(fs, f_index)
    ELSE LET d == Endpoint_default(fs) IN
         IF IsPanic(d) THEN d ELSE d.handler

\* self.find_endpoint(&request.path).unwrap_or_else(|| Endpoint::default().handler)
lookup(eps, fs, path) ==
    LET found == find_endpoint(eps, path) IN
    IF found # None THEN found
    ELSE LET d == Endpoint_default(fs) IN
         IF IsPanic(d) THEN d ELSE d.handler

\* The jobs one iteration of the loop submits for a connection.
run_jobs(handler, stream) == <<Job(handler, stream)>>

RECURSIVE ExecuteAll(_, _)
ExecuteAll(q, jobs) ==
    IF jobs = <<>> THEN q
    ELSE ExecuteAll(ThreadPool_execute(q, Head(jobs)), Tail(jobs))

run_dispatch ==
    /\ mainpc = "dispatch"
    /\ LET handler == lookup(endpoints, files, conns[accepted].request.path) IN
       IF IsPanic(handler)
       THEN /\ MainPanics(handler.panicked)
            /\ conns' = [conns EXCEPT ![accepted].at = "closed"]
            /\ UNCHANGED queue
       ELSE LET jobs == run_jobs(handler, accepted) IN
            /\ queue' = ExecuteAll(queue, jobs)
            /\ conns' = [conns EXCEPT ![accepted].at = "queue",
                                      ![accepted].seen = files,
                                      ![accepted].jobs = @ + Len(jobs)]
            /\ mainpc' = "accept"
            /\ UNCHANGED panic
    /\ UNCHANGED <<pool, files, fileWrites, endpoints, registered, accepted, acceptErrs,
                   workers, closed, joined>>

-----------------------------------------------------------------------------
(* The workers *)

\* A waiting worker gets hold of the receiver and of the next job of the
\* channel.
WorkerTake(w) ==
    /\ workers[w].state = "idle"
    /\ queue # <<>>
    /\ ReceiverFree(workers)
    /\ workers' = [workers EXCEPT ![w] = Taking(Head(queue))]
    /\ UNCHANGED <<pool, files, fileWrites, endpoints, registered, mainpc, panic, conns,
                   accepted, acceptErrs, queue, closed, joined>>

\* The worker takes its job off the channel, lets go of the receiver and
\* starts to run the job.
WorkerRecv(w) ==
    /\ workers[w].state = "taking"
    /\ queue' = SubSeq(queue, 2, Len(queue))
    /\ workers' = [workers EXCEPT ![w] = Busy(workers[w].job)]
    /\ conns' = [conns EXCEPT ![workers[w].job.stream].at = "worker",
                              ![workers[w].job.stream].recv = @ + 1]
    /\ UNCHANGED <<pool, files, fileWrites, endpoints, registered, mainpc, panic, accepted,
                   acceptErrs, closed, joined>>

\* A waiting worker finds the channel closed: its loop and its thread end.
WorkerExit(w) ==
    /\ workers[w].state = "idle"
    /\ ReceiverFree(workers)
    /\ ObservesClosure(queue, closed)
    /\ workers' = [workers EXCEPT ![w] = Exited]
    /\ UNCHANGED <<pool, files, fileWrites, endpoints, registered, mainpc, panic, conns,
                   accepted, acceptErrs, queue, closed, joined>>

\* Server::send_response(response, stream), one write of its write_all: sent
\* bytes of the formatted response have been written before, and this write
\* takes the next n. A write that takes none has failed (the error is
\* logged), and write_all returns Err; it returns Ok when all bytes are
\* written.
send_response(response, stream, sent, n) ==
    LET bytes == format_response(response) IN
    [stream EXCEPT !.wire = @ \o SubSeq(bytes, sent + 1, sent + n),
                   !.writes = IF n = 0 \/ sent + n = Len(bytes) THEN @ + 1 ELSE @,
                   !.wrote = IF n = 0 THEN "Err"
                             ELSE IF sent + n = Len(bytes) THEN "Ok"
                             ELSE @]

\* The bytes the job of worker w has still to write.
Rest(w) ==
    IF workers[w].state = "busy"
    THEN Len(format_response(workers[w].job.handler)) - workers[w].sent
    ELSE 0

\* The worker runs its job, the closure of run, by one write: send_response
\* goes on until write_all returns, then the stream is dropped.
WorkerRun(w, n) ==
    /\ workers[w].state = "busy"
    /\ n \in 0..Rest(w)
    /\ LET job == workers[w].job
           after == send_response(job.handler, conns[job.stream], workers[w].sent, n)
       IN  IF n = 0 \/ n = Rest(w)
           THEN /\ conns' = [conns EXCEPT ![job.stream] = [after EXCEPT !.at = "closed"]]
                /\ workers' = [workers EXCEPT ![w] = Idle]
           ELSE /\ conns' = [conns EXCEPT ![job.stream] = after]
                /\ workers' = [workers EXCEPT ![w].sent = @ + n]
    /\ UNCHANGED <<pool, files, fileWrites, endpoints, registered, mainpc, panic, accepted,
                   acceptErrs, queue, closed, joined>>

\* The writes of a client that takes the whole response at once or has gone
\* away, and those of any client.
OneSend(w) == {0, Rest(w)}
AnySend(w) == 0..Rest(w)

\* The Server is dropped when the panic unwinds the thread that owns it; the
\* pool's shutdown closes the job channel.
Shutdown ==
    /\ mainpc = "panicked"
    /\ pool.tag = "Ok"
    /\ ~closed
    /\ closed' = TRUE
    /\ UNCHANGED <<pool, files, fileWrites, endpoints, registered, mainpc, panic, conns,
                   accepted, acceptErrs, queue, workers, joined>>

\* The shutdown joins the workers one after the other; a join returns when
\* the worker's thread has ended.
Join ==
    /\ closed
    /\ joined < Len(workers)
    /\ workers[joined + 1].state = "exited"
    /\ joined' = joined + 1
    /\ UNCHANGED <<pool, files, fileWrites, endpoints, registered, mainpc, panic, conns,
                   accepted, acceptErrs, queue, workers, closed>>

-----------------------------------------------------------------------------
(* Specifications *)

\* The server under every registration list, with clients that send
\* well-formed request lines and a listener whose accept does not fail. (The
\* shutdown of the pool is followed in PoolSpec.)
Next ==
    \/ \E path \in RoutePaths, file_name \in FileNames : add_get_endpoint(path, file_name)
    \/ \E file_name \in FileNames, contents \in FileStates :
           WriteFile(file_name, contents)
    \/ run_start
    \/ \E stream \in RequestStreams : ClientConnect(stream)
    \/ run_accept
    \/ run_read
    \/ run_dispatch
    \/ \E w \in DOMAIN workers : WorkerTake(w)
    \/ \E w \in DOMAIN workers : WorkerRecv(w)
    \/ \E w \in DOMAIN workers : \E n \in OneSend(w) : WorkerRun(w, n)

Spec == Init /\ [][Next]_vars

\* The server with the route "/" under every kind of client, well-behaved or
\* not. (The shutdown of the pool is followed in PoolSpec.)
NextConn ==
    \/ add_get_endpoint(s_slash, f_index)
    \/ \E file_name \in FileNames, contents \in FileStates :
           WriteFile(file_name, contents)
    \/ run_start
    \/ \E stream \in BrokenStreams \cup
                      { Sends(RequestLine(s_GET, s_slash, s_HTTP11)),
                        Sends(RequestLine(s_GET, s_a, s_HTTP11)),
                        UnicodeSpacedStream } :
           ClientConnect(stream)
    \/ run_accept
    \/ run_accept_err
    \/ run_read
    \/ run_dispatch
    \/ \E w \in DOMAIN workers : WorkerTake(w)
    \/ \E w \in DOMAIN workers : WorkerRecv(w)
    \/ \E w \in DOMAIN workers : \E n \in OneSend(w) : WorkerRun(w, n)

ConnSpec == Init /\ [][NextConn]_vars

\* The pool under load: the server runs with the route "/" and PoolJobs
\* clients have connected, each asking for "/".
InitPool ==
    /\ files = [f \in FileNames |-> IF f = f_index THEN File(s_Hello) ELSE File(s_Oops)]
    /\ fileWrites = 0
    /\ endpoints = add_endpoint(<<>>, s_slash, html_response(files, f_index))
    /\ registered = <<[path |-> s_slash, file_name |-> f_index,
                        file |-> files[f_index], unknown |-> files[f_unknown]]>>
    /\ mainpc = "accept"
    /\ panic = "none"
    /\ conns = [c \in 1..PoolJobs |-> Conn(Sends(RequestLine(s_GET, s_slash, s_HTTP11)))]
    /\ accepted = 0
    /\ acceptErrs = 0
    /\ queue = <<>>
    /\ pool = [size |-> PoolSize, tag |-> ThreadPool_new(PoolSize).tag]
    /\ workers = ThreadPool_new(PoolSize).workers
    /\ closed = FALSE
    /\ joined = 0

NextPool ==
    \/ run_accept
    \/ run_accept_err
    \/ run_read
    \/ run_dispatch
    \/ \E w \in DOMAIN workers : WorkerTake(w)
    \/ \E w \in DOMAIN workers : WorkerRecv(w)
    \/ \E w \in DOMAIN workers : \E n \in OneSend(w) : WorkerRun(w, n)
    \/ Shutdown
    \/ \E w \in DOMAIN workers : WorkerExit(w)
    \/ Join

PoolSpec == InitPool /\ [][NextPool]_vars

\* PoolSpec with threads that are scheduled: a step of a worker or of the
\* shutdown that stays possible is taken. (The clients of PoolSpec take the
\* response or have gone away, so no write waits for ever.)
PoolFairSpec ==
    /\ PoolSpec
    /\ WF_vars(Shutdown)
    /\ WF_vars(Join)
    /\ \A w \in 1..PoolSize :
          /\ WF_vars(WorkerTake(w))
          /\ WF_vars(WorkerRecv(w))
          /\ WF_vars(WorkerExit(w))
          /\ WF_vars(\E n \in OneSend(w) : WorkerRun(w, n))

\* The writes: the server runs with the route "/"; one client asks for "/"
\* and one for "/a", and each takes the response in pieces of any size or
\* goes away at any point of it.
InitWrite ==
    /\ files = [f \in FileNames |-> IF f = f_index THEN File(s_Hello) ELSE File(s_Oops)]
    /\ fileWrites = 0
    /\ endpoints = add_endpoint(<<>>, s_slash, html_response(files, f_index))
    /\ registered = <<[path |-> s_slash, file_name |-> f_index,
                        file |-> files[f_index], unknown |-> files[f_unknown]]>>
    /\ mainpc = "accept"
    /\ panic = "none"
    /\ conns = <<Conn(Sends(RequestLine(s_GET, s_slash, s_HTTP11))),
                 Conn(Sends(RequestLine(s_GET, s_a, s_HTTP11)))>>
    /\ accepted = 0
    /\ acceptErrs = 0
    /\ queue = <<>>
    /\ pool = [size |-> PoolSize, tag |-> ThreadPool_new(PoolSize).tag]
    /\ workers = ThreadPool_new(PoolSize).workers
    /\ closed = FALSE
    /\ joined = 0

NextWrite ==
    \/ run_accept
    \/ run_read
    \/ run_dispatch
    \/ \E w \in DOMAIN workers : WorkerTake(w)
    \/ \E w \in DOMAIN workers : WorkerRecv(w)
    \/ \E w \in DOMAIN workers : \E n \in AnySend(w) : WorkerRun(w, n)

WriteSpec == InitWrite /\ [][NextWrite]_vars

\* The pool under every size up to MaxPoolSize, zero included, with the
\* accept loop feeding it as in PoolSpec. Where the construction panicked
\* there is no pool to run the server on.
InitPoolNew ==
    \E n \in 0..MaxPoolSize :
        /\ files = [f \in FileNames |-> IF f = f_index THEN File(s_Hello) ELSE File(s_Oops)]
        /\ fileWrites = 0
        /\ endpoints = <<Endpoint_new(s_slash, html_response(files, f_index))>>
        /\ registered = <<[path |-> s_slash, file_name |-> f_index,
                            file |-> files[f_index], unknown |-> files[f_unknown]]>>
        /\ conns = [c \in 1..PoolJobs |-> Conn(Sends(RequestLine(s_GET, s_slash, s_HTTP11)))]
        /\ accepted = 0
        /\ acceptErrs = 0
        /\ queue = <<>>
        /\ pool = [size |-> n, tag |-> ThreadPool_new(n).tag]
        /\ IF ThreadPool_new(n).tag = "Ok"
           THEN mainpc = "accept" /\ panic = "none" /\ workers = ThreadPool_new(n).workers
           ELSE mainpc = "panicked" /\ panic = "pool size" /\ workers = <<>>
        /\ closed = FALSE
        /\ joined = 0

NextPoolNew ==
    \/ run_accept
    \/ run_accept_err
    \/ run_read
    \/ run_dispatch
    \/ \E w \in DOMAIN workers : WorkerTake(w)
    \/ \E w \in DOMAIN workers : WorkerRecv(w)
    \/ \E w \in DOMAIN workers : \E n \in OneSend(w) : WorkerRun(w, n)
    \/ Shutdown
    \/ \E w \in DOMAIN workers : WorkerExit(w)
    \/ Join

PoolNewSpec == InitPoolNew /\ [][NextPoolNew]_vars

-----------------------------------------------------------------------------
(* Reading a response off the wire, as a client does *)

IsPrefixAt(p, s, i) == i + Len(p) - 1 <= Len(s) /\ SubSeq(s, i, i + Len(p) - 1) = p

\* Index of the first occurrence of p in s at or after i, or 0.
RECURSIVE Find(_, _, _)
Find(p, s, i) ==
    IF i + Len(p) - 1 > Len(s) THEN 0
    ELSE IF IsPrefixAt(p, s, i) THEN i
    ELSE Find(p, s, i + 1)

\* The status line: what comes before the first CRLF.
WireStatusLine(wire) == SubSeq(wire, 1, Find(s_crlf, wire, 1) - 1)

\* The body: what comes after the first blank line.
WireBody(wire) ==
    LET i == Find(s_crlf \o s_crlf, wire, 1) IN SubSeq(wire, i + 4, Len(wire))

\* The whole response has been written to c: write_all returned Ok.
Answered(c) == conns[c].wrote = "Ok"

\* The connection was dispatched: Server::run looked its path up.
Dispatched(c) == conns[c].jobs > 0 \/ conns[c].at \in {"queue", "worker"}

\* The endpoint the path of c's request hits (0: a miss). The table does not
\* change once run() has started.
RouteOf(c) == FirstMatch(endpoints, conns[c].request.path, 1)

\* What the registration of endpoint i read: the file, or unknown.html when
\* the file could not be read.
ContentReadAt(i) ==
    IF registered[i].file.exists THEN registered[i].file.contents
    ELSE registered[i].unknown.contents

HasWhiteSpace(s) ==
    \E i \in 1..Len(s), j \in 1..Len(s) : i <= j /\ SubSeq(s, i, j) \in WhiteSpace

-----------------------------------------------------------------------------
(* C1 *)

\* C1 as stated: for every registered path P, with C the content read at
\* its registration, a connection whose request line is "GET P HTTP/1.1" is
\* answered with body C.
C1_EveryRegistrationServed ==
    \A c \in 1..Len(conns), i \in 1..Len(endpoints) :
        (/\ conns[c].stream = Sends(RequestLine(s_GET, endpoints[i].path, s_HTTP11))
         /\ Answered(c))
        => WireBody(conns[c].wire) = ContentReadAt(i)

\* C1 amended: for every registered path P that is one non-empty token without
\* whitespace, with C the content read at the first registration of P, a
\* connection whose request line is "GET P HTTP/1.1" is answered, when it is
\* answered, with body C.
C1_FirstRegistrationServed ==
    \A c \in 1..Len(conns), i \in 1..Len(endpoints) :
        (/\ conns[c].stream = Sends(RequestLine(s_GET, endpoints[i].path, s_HTTP11))
         /\ endpoints[i].path # <<>>
         /\ ~HasWhiteSpace(endpoints[i].path)
         /\ \A j \in 1..(i - 1) : endpoints[j].path # endpoints[i].path
         /\ Answered(c))
        => WireBody(conns[c].wire) = ContentReadAt(i)

\* Two routes, one path a prefix of the other, with different contents, and
\* the request for the second route is answered with the second's content.
C1_Witness ==
    /\ Len(endpoints) = 2
    /\ endpoints[1].path = s_slash
    /\ endpoints[2].path = s_a
    /\ ContentReadAt(1) # ContentReadAt(2)
    /\ \E c \in 1..Len(conns) :
          /\ conns[c].stream = Sends(RequestLine(s_GET, s_a, s_HTTP11))
          /\ Answered(c)
          /\ WireBody(conns[c].wire) = ContentReadAt(2)

-----------------------------------------------------------------------------
(* C2 *)

Miss(c) == conns[c].request # None /\ RouteOf(c) = 0

\* C2: a response to a request whose path matches no registered route has the
\* status line "HTTP/1.1 200 OK" and, as its body, the content of unknown.html
\* (as it was when the request was dispatched), for every miss of a run.
C2_MissGetsFallback ==
    \A c \in 1..Len(conns) :
        (Miss(c) /\ Answered(c))
        => /\ WireStatusLine(conns[c].wire) = s_HTTP11 \o s_sp \o StatusCode_fmt("Ok")
           /\ WireBody(conns[c].wire) = conns[c].seen[f_unknown].contents

\* Two connections asked for different unregistered paths while a route was
\* registered, and both were answered.
C2_Witness ==
    /\ Len(endpoints) > 0
    /\ \E c, d \in 1..Len(conns) :
          /\ Miss(c) /\ Answered(c)
          /\ Miss(d) /\ Answered(d)
          /\ conns[c].request.path # conns[d].request.path

-----------------------------------------------------------------------------
(* C10 *)

\* C10: a response to a request that hits a route has as its body the content
\* read when the route was registered, whatever the backing file holds when the
\* request is dispatched or answered.
C10_ContentFrozenAtRegistration ==
    \A c \in 1..Len(conns) :
        (conns[c].request # None /\ RouteOf(c) > 0 /\ Answered(c))
        => WireBody(conns[c].wire) = ContentReadAt(RouteOf(c))

\* A route's file was changed after the registration and before a request for
\* the route was dispatched; the answer carries the content read at registration.
C10_Witness ==
    \E c \in 1..Len(conns) :
        /\ conns[c].request # None
        /\ RouteOf(c) > 0
        /\ Answered(c)
        /\ LET r == registered[RouteOf(c)] IN
              /\ r.file.exists
              /\ conns[c].seen[r.file_name] # r.file
              /\ conns[c].seen[r.file_name].exists
              /\ WireBody(conns[c].wire) = r.file.contents
              /\ WireBody(conns[c].wire) # conns[c].seen[r.file_name].contents

-----------------------------------------------------------------------------
(* C3 to C7: the accept loop and its connections *)

\* run_read has acted on connection c.
ReadDone(c) == c < accepted \/ (c = accepted /\ mainpc # "read")

\* The loop's iteration for connection c is over.
IterationDone(c) == c < accepted \/ (c = accepted /\ mainpc \notin {"read", "dispatch"})

\* The client sent a first line that is not "<known method> <path> <protocol>".
Malformed(c) ==
    /\ lines_next(conns[c].stream).tag = "Some"
    /\ LET parts == split_whitespace(lines_next(conns[c].stream).line) IN
          \/ Len(parts) < 3
          \/ parts[1] \notin {s_GET, s_POST, s_PUT, s_DELETE}

\* The loop's thread panicked while it was reading connection c.
CrashedReading(c) ==
    /\ mainpc = "panicked"
    /\ accepted = c
    /\ panic \in {"read failed", "no first line", "no method"}

\* C3: once a malformed or empty first line has been read, it has been made
\* into a request (with defaults) and the thread that parsed it has not crashed
\* on it.
C3_MalformedLineParsed ==
    \A c \in 1..Len(conns) :
        (Malformed(c) /\ ReadDone(c)) => (conns[c].request # None /\ ~CrashedReading(c))

\* The client closed before a first line, or the read failed, or the write of
\* the response failed.
ConnFailed(c) ==
    \/ ReadDone(c) /\ lines_next(conns[c].stream).tag \in {"None", "Err"}
    \/ conns[c].wrote = "Err"

\* C4: a connection that failed has not stopped the accept loop.
C4_FailureIsolated ==
    \A c \in 1..Len(conns) : ConnFailed(c) => ~CrashedReading(c)

\* C5: after an accept error the accept loop is still running.
C5_AcceptErrorSurvived == acceptErrs > 0 => mainpc # "panicked"

\* C6: a connection's request line is read and parsed only after its job was
\* submitted to the pool.
C6_ParsedAfterSubmission ==
    \A c \in 1..Len(conns) : conns[c].request # None => conns[c].jobs > 0

\* C7: every accepted connection the loop is done with has had exactly one job
\* submitted, and once closed exactly one write.
C7_OneJobOneWrite ==
    \A c \in 1..Len(conns) :
        IterationDone(c) /\ c <= accepted
        => /\ conns[c].jobs = 1
           /\ conns[c].at = "closed" => conns[c].writes = 1

-----------------------------------------------------------------------------
(* C8, C9: the pool *)

Executing == {c \in 1..Len(conns) : conns[c].at = "worker"}

InQueue(c) == Cardinality({k \in 1..Len(queue) : queue[k].stream = c})

InWorkers(c) ==
    Cardinality({w \in 1..PoolSize : workers[w].state = "busy" /\ workers[w].job.stream = c})

\* At most PoolSize jobs are executing; once the shutdown has joined every
\* worker, every worker's thread has ended, no job is left in the channel and
\* every job that was submitted has run to its end.
C8_Invariant ==
    /\ Cardinality(Executing) <= PoolSize
    /\ joined = PoolSize =>
          /\ queue = <<>>
          /\ \A w \in 1..PoolSize : workers[w].state = "exited"
          /\ \A c \in 1..Len(conns) :
                Dispatched(c) => conns[c].at = "closed" /\ conns[c].writes >= 1

-----------------------------------------------------------------------------
(* C11 *)

\* The thread that owns the Server panicked on an unreadable unknown.html
\* after run() had started (clients connect only from then on).
FileErrorAtRuntime ==
    /\ mainpc = "panicked"
    /\ panic = "unknown.html unreadable"
    /\ accepted > 0

\* C11: no file is read once run() has started: no unreadable file is fatal
\* then, and all misses of a run are answered with the same body whatever
\* happens to unknown.html in between.
C11_NoFileReadAtRuntime ==
    /\ ~FileErrorAtRuntime
    /\ \A c, d \in 1..Len(conns) :
          (Miss(c) /\ Answered(c) /\ Miss(d) /\ Answered(d))
          => WireBody(conns[c].wire) = WireBody(conns[d].wire)

-----------------------------------------------------------------------------
(* C12 *)

DigitValue(ch) == CHOOSE d \in 0..9 : Digit(d) = ch

IsDigits(s) == s # <<>> /\ \A k \in 1..Len(s) : \E d \in 0..9 : Digit(d) = s[k]

RECURSIVE ParseDecimal(_)
ParseDecimal(s) ==
    IF s = <<>> THEN 0
    ELSE 10 * ParseDecimal(SubSeq(s, 1, Len(s) - 1)) + DigitValue(s[Len(s)])

\* The first n bytes of s, or all of s when it has fewer.
TakeBytes(s, n) == SubSeq(s, 1, IF n < Len(s) THEN n ELSE Len(s))

\* What lies between the status line and the blank line.
WireHeaders(wire) ==
    SubSeq(wire, Find(s_crlf, wire, 1) + 2, Find(s_crlf \o s_crlf, wire, 1) - 1)

\* The body of the response the handler of c carries.
HandlerBody(c) ==
    IF Miss(c) THEN conns[c].seen[f_unknown].contents ELSE ContentReadAt(RouteOf(c))

StatusTexts == {StatusCode_fmt(st) : st \in StatusCode}

HelloResponse ==
    <<"H", "T", "T", "P", "/", "1", ".", "1", " ", "2", "0", "0", " ", "O", "K", "\r", "\n",
      "C", "o", "n", "t", "e", "n", "t", "-", "L", "e", "n", "g", "t", "h", ":", " ", "5",
      "\r", "\n", "\r", "\n", "H", "e", "l", "l", "o">>

\* C12: every response on the wire is a status line "{protocol} {status}",
\* exactly one header "Content-Length: N", a blank line and the body, where N
\* is the length of the body in bytes: the N bytes after the blank line are
\* the whole body. A body "Hello" gives the bytes of HelloResponse.
C12_ResponseFraming ==
    \A c \in 1..Len(conns) : Answered(c) =>
        LET wire == conns[c].wire
            line == WireStatusLine(wire)
            headers == WireHeaders(wire)
            digits == SubSeq(headers, Len(s_ContentLength) + 1, Len(headers))
            rest == WireBody(wire)
        IN  /\ Find(s_crlf \o s_crlf, wire, 1) > 0
            /\ IsPrefixAt(s_HTTP11 \o s_sp, line, 1)
            /\ SubSeq(line, Len(s_HTTP11) + 2, Len(line)) \in StatusTexts
            /\ Find(s_crlf, headers, 1) = 0
            /\ IsPrefixAt(s_ContentLength, headers, 1)
            /\ IsDigits(digits)
            /\ ParseDecimal(digits) = ByteLen(HandlerBody(c))
            /\ TakeBytes(rest, ParseDecimal(digits)) = HandlerBody(c)
            /\ rest = HandlerBody(c)
            /\ (HandlerBody(c) = s_Hello => wire = HelloResponse)

\* A response whose body has fewer characters than bytes, and one with the
\* body "Hello".
C12_Witness ==
    /\ \E c \in 1..Len(conns) :
          /\ Answered(c)
          /\ CharLen(WireBody(conns[c].wire)) < ByteLen(WireBody(conns[c].wire))
    /\ \E c \in 1..Len(conns) : Answered(c) /\ conns[c].wire = HelloResponse

-----------------------------------------------------------------------------
(* C13 *)

\* C13: a pool constructed with size 0 is not constructed: the caller gets
\* the value PoolConfigurationError, no worker exists and nothing has
\* panicked.
C13_ZeroSizeRejected ==
    pool.size = 0 =>
        /\ pool.tag = "PoolConfigurationError"
        /\ workers = <<>>
        /\ panic = "none"

-----------------------------------------------------------------------------
(* C14 *)

\* The server is waiting for the first line of connection c, which its
\* client has not sent yet.
AwaitingRequestLine(c) == conns[c].at = "main" /\ mainpc = "read"

\* C14: a client that has connected and not yet sent its request line holds
\* up one worker at most: while some worker is idle, a connection of another
\* client that waits in the backlog can be accepted.
C14_SlowClientHoldsOneWorker ==
    \A c, d \in 1..Len(conns) :
        (/\ AwaitingRequestLine(c)
         /\ conns[d].at = "backlog"
         /\ \E w \in DOMAIN workers : workers[w].state = "idle")
        => ENABLED run_accept

-----------------------------------------------------------------------------
(* C15 *)

\* The tokens of the first line the client of c sent.
FirstLineTokens(c) == split_whitespace(lines_next(conns[c].stream).line)

\* C15: once the first line of a connection has been read, the request made
\* of it has each of method, path and protocol taken from its token when the
\* line has one, and otherwise GET, "/" and "HTTP/1.1"; a method token that
\* is none of GET, POST, PUT, DELETE gives GET.
C15_TokenDefaults ==
    \A c \in 1..Len(conns) :
        (ReadDone(c) /\ lines_next(conns[c].stream).tag = "Some") =>
            LET parts == FirstLineTokens(c) IN
            /\ conns[c].request # None
            /\ conns[c].request.method =
                  (IF Len(parts) >= 1 /\ parts[1] = s_POST THEN "POST"
                   ELSE IF Len(parts) >= 1 /\ parts[1] = s_PUT THEN "PUT"
                   ELSE IF Len(parts) >= 1 /\ parts[1] = s_DELETE THEN "DELETE"
                   ELSE "GET")
            /\ conns[c].request.path = (IF Len(parts) >= 2 THEN parts[2] ELSE s_slash)
            /\ conns[c].request.protocol = (IF Len(parts) >= 3 THEN parts[3] ELSE s_HTTP11)

-----------------------------------------------------------------------------
(* C16 *)

\* C16: a registration adds one route for its path; its body is the content
\* of the file, or of unknown.html when the file cannot be read. A
\* registration fails, fatally and without adding a route, only when neither
\* the file nor unknown.html can be read.
C16_UnreadableFileFallsBack ==
    [][/\ Len(endpoints') > Len(endpoints) =>
            LET i == Len(endpoints')
                e == endpoints'[i]
                r == registered'[i]
            IN  /\ i = Len(endpoints) + 1
                /\ SubSeq(endpoints', 1, i - 1) = endpoints
                /\ e.path = r.path
                /\ r.file = files[r.file_name]
                /\ r.unknown = files[f_unknown]
                /\ r.file.exists => e.handler.body = r.file.contents
                /\ ~r.file.exists =>
                      /\ r.unknown.exists
                      /\ e.handler.body = r.unknown.contents
       /\ (mainpc = "setup" /\ mainpc' = "panicked") =>
            /\ ~files[f_unknown].exists
            /\ \E file_name \in FileNames : ~files[file_name].exists
            /\ endpoints' = endpoints
       /\ (mainpc = "setup" /\ files[f_unknown].exists) => mainpc' # "panicked"
      ]_vars

\* A route registered while its file could not be read serves the content
\* unknown.html had then.
C16_Witness ==
    \E i \in 1..Len(endpoints) :
        /\ ~registered[i].file.exists
        /\ registered[i].file_name # f_unknown
        /\ endpoints[i].handler.body = s_Oops
        /\ \E c \in 1..Len(conns) :
              Answered(c) /\ RouteOf(c) = i /\ WireBody(conns[c].wire) = s_Oops

-----------------------------------------------------------------------------
(* C17 *)

\* C17: what is written to a connection is a function of the path of its
\* request and of the route table (fixed once run() has started): two
\* answered connections whose requests have the same path carry the same
\* bytes, whatever their method and protocol tokens, and every status line
\* begins with "HTTP/1.1".
C17_PathAndTableOnly ==
    /\ \A c, d \in 1..Len(conns) :
          (/\ Answered(c) /\ Answered(d)
           /\ conns[c].request.path = conns[d].request.path)
          => conns[c].wire = conns[d].wire
    /\ \A c \in 1..Len(conns) :
          Answered(c) => IsPrefixAt(s_HTTP11 \o s_sp, WireStatusLine(conns[c].wire), 1)

\* The part of C17 that is about the tokens: requests for the same path that
\* were dispatched over the same unknown.html carry the same bytes.
C17_TokensIgnored ==
    \A c, d \in 1..Len(conns) :
        (/\ Answered(c) /\ Answered(d)
         /\ conns[c].request.path = conns[d].request.path
         /\ conns[c].seen[f_unknown] = conns[d].seen[f_unknown])
        => conns[c].wire = conns[d].wire

-----------------------------------------------------------------------------
(* C18 *)

\* C18: the status line of every response on the wire is "HTTP/1.1 200 OK":
\* no response carries the text of BadRequest, NotFound or
\* InternalServerError as its status.
C18_AlwaysOk ==
    \A c \in 1..Len(conns) : Answered(c) =>
        /\ WireStatusLine(conns[c].wire) = s_HTTP11 \o s_sp \o StatusCode_fmt("Ok")
        /\ \A st \in StatusCode \ {"Ok"} :
              Find(StatusCode_fmt(st), WireStatusLine(conns[c].wire), 1) = 0

\* A malformed line was answered from a route whose file was unreadable when
\* it was registered, and a miss was answered.
C18_Witness ==
    \E c, d \in 1..Len(conns) :
        /\ Answered(c) /\ Malformed(c) /\ RouteOf(c) > 0
        /\ ~registered[RouteOf(c)].file.exists
        /\ Answered(d) /\ Miss(d)

-----------------------------------------------------------------------------
(* C19 *)

\* C19: the first registration of a path wins. No step changes what the
\* lookup of a path returns once it returns a handler, a registration only
\* appends, and a request for a path registered more than once is answered
\* with what the first of its registrations read.
C19_FirstRegistrationWins ==
    [][/\ \A path \in RoutePaths :
             find_endpoint(endpoints, path) # None
             => find_endpoint(endpoints', path) = find_endpoint(endpoints, path)
       /\ Len(endpoints') >= Len(endpoints)
       /\ SubSeq(endpoints', 1, Len(endpoints)) = endpoints
       /\ \A c \in 1..Len(conns'), i, j \in 1..Len(registered') :
             (/\ conns'[c].wrote = "Ok"
              /\ i < j
              /\ registered'[i].path = conns'[c].request.path
              /\ registered'[j].path = conns'[c].request.path
              /\ \A k \in 1..(i - 1) : registered'[k].path # conns'[c].request.path)
             => WireBody(conns'[c].wire) =
                    (IF registered'[i].file.exists THEN registered'[i].file.contents
                     ELSE registered'[i].unknown.contents)
      ]_vars

\* A path was registered twice with different contents, and a request for it
\* was answered with the first.
C19_Witness ==
    \E c \in 1..Len(conns) :
        /\ Answered(c)
        /\ Len(endpoints) = 2
        /\ endpoints[1].path = conns[c].request.path
        /\ endpoints[2].path = conns[c].request.path
        /\ endpoints[1].handler.body # endpoints[2].handler.body
        /\ WireBody(conns[c].wire) = endpoints[1].handler.body

====
